---- MODULE Spec2Model ----
(***************************************************************************)
(* LDProxyConfigGenerator (src/ldproxy_api_scaffold/api.py): the           *)
(* orchestrator that reads the metadata of a database schema through a     *)
(* DatabaseClient, builds one table model, constructs the three document   *)
(* generators (ApiService, SQLProvider, TileProvider) over it, writes      *)
(* their documents on generate_yaml_files and releases the database        *)
(* engine on dispose_engine.                                               *)
(*                                                                         *)
(* DatabaseClient and the three generators are collaborators whose code    *)
(* is not part of api.py: they are modelled from their description in      *)
(* spec.md (sections 4.1 to 4.4) and every call of them may raise.         *)
(* A call that raises is chosen by an input of the step that makes it.     *)
(* An operation that makes several blocking calls (to the database, to the *)
(* file system) is one step per call: pc holds the line it goes on at.     *)
(***************************************************************************)
EXTENDS Integers, Sequences, FiniteSets, TLC

\* Longest target_tables list a caller passes.
MaxTargets == 2

\* Orchestrator instances. Spec runs "o1" alone.
Orchestrators == {"o1", "o2"}
Single == {"o1"}

ServiceIds == {"svc_a", "svc_b"}
SchemaNames == {"geo"}
ExportDirs == {"out"}
TableNames == {"parks", "stations"}
DocKinds == {"service", "provider", "tiles"}

\* Python's None and a present value: an optional is a sequence of length <= 1.
None == << >>
Some(x) == << x >>
IsNone(v) == v = << >>
Get(v) == v[1]

Range(s) == {s[i] : i \in 1..Len(s)}
SeqsUpTo(S, n) == UNION {[1..k -> S] : k \in 0..n}
NoDuplicates(s) == \A i, j \in 1..Len(s) : i # j => s[i] # s[j]

\* The elements of s in the order of their first occurrence.
RECURSIVE Distinct(_)
Distinct(s) ==
    IF s = << >> THEN << >>
    ELSE LET r == Distinct(SubSeq(s, 1, Len(s) - 1))
             x == s[Len(s)]
         IN  IF x \in Range(r) THEN r ELSE Append(r, x)

(***************************************************************************)
(* Inputs of the operations.                                               *)
(***************************************************************************)
\* The recognised capability flags (spec.md section 3, CapabilityFlag).
CapabilityFlags == {"QUERYABLES", "CRS", "FILTER", "TILES", "STYLES", "PROJECTIONS"}

\* api_blocks arguments: absent, empty, recognised flags, an unrecognised flag.
ApiBlockInputs ==
    { None, Some(<< >>), Some(<<"TILES">>), Some(<<"TILES", "BOGUS">>) }

\* target_tables arguments: absent, or a list (empty, repeated names allowed).
TargetTableInputs == {None} \cup {Some(l) : l \in SeqsUpTo(TableNames, MaxTargets)}

\* Enumeration orders of the tables a schema can hold.
SchemaStates == {s \in SeqsUpTo(TableNames, Cardinality(TableNames)) : NoDuplicates(s)}

\* The call of lines 25-45 that raises: none, DatabaseClient(...),
\* get_schema_tables.
InitFaults == {"none", "client", "list"}
\* The call of lines 47-55 that raises: none, create_table_config,
\* ApiService(...), SQLProvider(...), TileProvider(...).
ResourceFaults == {"none", "model", "service", "sql", "tile"}

NoError == "none"

VARIABLES
    schema,             \* the database: the tables of the schema, in enumeration order
    files,              \* the documents on disk: <<export_dir, kind>> -> optional document
    phase,              \* per orchestrator: Uninitialized, Ready, Generated, Failed
    pc,                 \* per orchestrator: idle, or the line its running call is at
    service_id,         \* self.service_id
    target_tables,      \* self.target_tables
    api_blocks,         \* self.api_blocks
    docker,             \* self.docker
    db_client,          \* self.db_client: optional [schema_name, engine]
    table_config,       \* self.table_config
    service_obj,        \* self.service_obj
    sql_provider_obj,   \* self.sql_provider_obj
    tile_provider_obj,  \* self.tile_provider_obj
    error,              \* the exception the last operation raised to its caller
    last,               \* history: the last operation called and what it did
    db_log,             \* history: the metadata calls made through db_client
    init_args           \* history: the arguments of __init__ and the schema it saw

attrs == << service_id, target_tables, api_blocks, docker, table_config,
            service_obj, sql_provider_obj, tile_provider_obj >>
vars == << schema, files, phase, pc, service_id, target_tables, api_blocks, docker,
           db_client, table_config, service_obj, sql_provider_obj,
           tile_provider_obj, error, last, db_log, init_args >>

(***************************************************************************)
(* DatabaseClient (utils/db.py, spec.md 4.1 Metadata Source).              *)
(***************************************************************************)
\* Column metadata of a table of the database.
TableInfo(t) ==
    [ name |-> t,
      geometry |-> IF t = "parks" THEN "polygon" ELSE "none",
      primary_key |-> "id" ]

\* DatabaseClient(db_conn_str, schema_name): opens the pooled engine.
DatabaseClient(schema_name) == [schema_name |-> schema_name, engine |-> "open"]

\* listTables: the tables of the schema, as the database holds them now.
get_schema_tables == schema

\* The requested tables the schema does not hold: buildTableModel raises
\* NotFoundError for them.
MissingTables(tables) == {t \in Range(tables) : t \notin Range(schema)}

\* buildTableModel: a keyed mapping in insertion order, one entry per table.
create_table_config(tables) ==
    LET names == Distinct(tables)
    IN  [i \in 1..Len(names) |-> TableInfo(names[i])]

\* DatabaseClient.dispose_engine: releases the engine; idempotent.
client_dispose_engine(client) == [client EXCEPT !.engine = "disposed"]

(***************************************************************************)
(* The generators (spec.md 4.2 to 4.4).                                    *)
(***************************************************************************)
ApiService(sid, tc, blocks) ==
    [service_id |-> sid, table_config |-> tc, api_blocks |-> blocks]

SQLProvider(sid, force_axis_order, tc, engine, db_config, dk) ==
    [ service_id |-> sid, force_axis_order |-> force_axis_order,
      table_config |-> tc, engine |-> engine, db_config |-> db_config,
      docker |-> dk ]

TileProvider(sid, tc) == [service_id |-> sid, table_config |-> tc]

\* Feature-type and tileset identifier of a table: the identity mapping.
FeatureTypeId(t) == t

ServiceDoc(obj) ==
    [ kind |-> "service", id |-> obj.service_id,
      feature_types |->
          [i \in 1..Len(obj.table_config) |-> FeatureTypeId(obj.table_config[i].name)],
      blocks |-> Range(obj.api_blocks) \cap CapabilityFlags ]

ProviderDoc(obj) ==
    [ kind |-> "provider", id |-> obj.service_id,
      types |->
          [i \in 1..Len(obj.table_config) |->
              [ id |-> FeatureTypeId(obj.table_config[i].name),
                source_table |-> obj.table_config[i].name,
                primary_key |-> obj.table_config[i].primary_key,
                geometry |-> obj.table_config[i].geometry ]],
      axis_order |-> obj.force_axis_order,
      docker |-> obj.docker ]

HasGeometry(t) == t.geometry # "none"

TileDoc(obj) ==
    [ kind |-> "tiles", id |-> obj.service_id,
      tilesets |->
          LET geo == SelectSeq(obj.table_config, HasGeometry)
          IN  [i \in 1..Len(geo) |-> FeatureTypeId(geo[i].name)] ]

(***************************************************************************)
(* LDProxyConfigGenerator.                                                 *)
(***************************************************************************)
\* line 32: api_blocks or [the six flags]; None and [] are both falsy.
DefaultApiBlocks == <<"QUERYABLES", "CRS", "FILTER", "TILES", "STYLES", "PROJECTIONS">>
\* line 32 as it would be with the supplied flags added to the defaults.
effective_api_blocks_merged(blocks) ==
    IF IsNone(blocks) THEN DefaultApiBlocks ELSE DefaultApiBlocks \o Get(blocks)

\* line 32 as it would be with `is None` in place of `or`.
effective_api_blocks_is_none(blocks) ==
    IF IsNone(blocks) THEN DefaultApiBlocks ELSE Get(blocks)

effective_api_blocks(blocks) ==
    IF IsNone(blocks) \/ Get(blocks) = << >> THEN DefaultApiBlocks ELSE Get(blocks)

\* lines 44-45 as they would be with `not self.target_tables` for `is None`.
resolve_target_tables_falsy(tt) ==
    IF IsNone(tt) \/ Get(tt) = << >> THEN get_schema_tables ELSE Get(tt)

\* lines 44-45: the tables _init_resources builds the model for.
resolve_target_tables(tt) ==
    IF IsNone(tt) THEN get_schema_tables ELSE Get(tt)

\* line 47 as it would be if the model were built for the first table only.
table_config_request_first(tt) ==
    IF Get(tt) = << >> THEN << >> ELSE << Get(tt)[1] >>

\* line 47: the argument of create_table_config is self.target_tables, which
\* is a list when line 47 is reached.
table_config_request(tt) == Get(tt)

\* line 49.
new_service_obj(sid, tc, blocks) == ApiService(sid, tc, blocks)
\* lines 50-54 as they would be if the docker layout chose the axis order.
new_sql_provider_obj_axis_by_docker(o, sid, tc, dk) ==
    SQLProvider(sid, IF dk THEN "LAT_LON" ELSE "LON_LAT", tc, o, None, dk)

\* lines 50-54: engine is the handle of the orchestrator's own db_client.
new_sql_provider_obj(o, sid, tc, dk) == SQLProvider(sid, "LON_LAT", tc, o, None, dk)
\* line 55 as it would be with the schema name passed for the service id.
new_tile_provider_obj_schema_name(sid, tc) == TileProvider("geo", tc)

\* line 55.
new_tile_provider_obj(sid, tc) == TileProvider(sid, tc)

\* line 55 as it would be if the tile provider got a model that depends on
\* the capability flags.
tile_provider_args_flagged(sid, tc, blocks, dk) ==
    << sid, IF "QUERYABLES" \in Range(blocks) THEN tc ELSE << >> >>

\* line 55 as it would be if the tile provider got a freshly fetched model of
\* the whole schema instead of self.table_config.
tile_provider_args_whole_schema(sid, tc, blocks, dk) ==
    << sid, create_table_config(get_schema_tables) >>

\* line 55 as it would be if the docker flag changed the model handed over.
tile_provider_args_docker(sid, tc, blocks, dk) ==
    << sid, IF dk THEN << >> ELSE tc >>

\* line 55: what TileProvider is given. Of the orchestrator's attributes it
\* gets service_id and table_config; api_blocks and docker are not passed.
tile_provider_args(sid, tc, blocks, dk) == << sid, tc >>

\* __init__ as it would be if it caught what a callee raises.
phase_after_init_swallowed(pos) == "Ready"

\* lines 35-37: nothing catches an exception, so the caller holds a usable
\* orchestrator only if no call raised.
phase_after_init(pos) == IF pos = 7 THEN "Ready" ELSE "Failed"

\* The position of the first call of __init__ that raises; 7 when none does.
\*   1 DatabaseClient(...)   2 get_schema_tables   3 create_table_config
\*   4 ApiService(...)       5 SQLProvider(...)    6 TileProvider(...)
\* Lines 25-45: 3 stands for "line 47 is reached".
ListFailPos(tt, fault) ==
    IF fault = "client" THEN 1
    ELSE IF fault = "list" /\ IsNone(tt) THEN 2
    ELSE 3

\* Lines 47-55, for the tables create_table_config is asked for.
BuildFailPos(tables, fault) ==
    IF fault = "model" \/ MissingTables(tables) # {} THEN 3
    ELSE IF fault = "service" THEN 4
    ELSE IF fault = "sql" THEN 5
    ELSE IF fault = "tile" THEN 6
    ELSE 7

\* The exception the call at that position raises (spec.md section 7).
InitRaised(pos, tables) ==
    IF pos = 7 THEN NoError
    ELSE IF pos \in {1, 2} THEN "ConnectionError"
    ELSE IF pos = 3 /\ MissingTables(tables) # {} THEN "NotFoundError"
    ELSE "UnsupportedTypeError"

NoCall == [ op |-> "none", disposed_before |-> FALSE, generated_before |-> FALSE,
            export_dir |-> "", invoked |-> << >>, wrote |-> << >>,
            raised |-> NoError ]

\* __init__ (lines 25-37) up to the first round trip to the database made by
\* _init_resources (lines 44-45, the enumeration of the schema).  An exception
\* of a callee is not caught: the attributes assigned before it stay assigned,
\* the engine of a created db_client stays as it is, and the caller gets no
\* object.  When nothing raised, the call goes on at line 47.
__init__(o, sid, schema_name, tt, blocks, dk, fault) ==
    LET pos == ListFailPos(tt, fault)
    IN  /\ phase[o] = "Uninitialized" /\ pc[o] = "idle"
        /\ service_id' = [service_id EXCEPT ![o] = Some(sid)]
        /\ api_blocks' = [api_blocks EXCEPT ![o] = Some(effective_api_blocks(blocks))]
        /\ docker' = [docker EXCEPT ![o] = Some(dk)]
        /\ db_client' = [db_client EXCEPT ![o] =
                IF pos > 1 THEN Some(DatabaseClient(schema_name)) ELSE None]
        /\ target_tables' = [target_tables EXCEPT ![o] =
                IF pos > 2 THEN Some(resolve_target_tables(tt)) ELSE tt]
        /\ db_log' = [db_log EXCEPT ![o] =
                IF IsNone(tt) /\ pos >= 2
                THEN << [ call |-> "get_schema_tables", arg |-> << >>,
                          result |-> IF pos = 2 THEN None ELSE Some(get_schema_tables) ] >>
                ELSE << >>]
        /\ phase' = [phase EXCEPT ![o] = IF pos > 2 THEN @ ELSE phase_after_init(pos)]
        /\ pc' = [pc EXCEPT ![o] = IF pos > 2 THEN "line47" ELSE "idle"]
        /\ error' = [error EXCEPT ![o] = InitRaised(IF pos > 2 THEN 7 ELSE pos, << >>)]
        /\ last' = [last EXCEPT ![o] =
                [NoCall EXCEPT !.op = "init",
                               !.raised = InitRaised(IF pos > 2 THEN 7 ELSE pos, << >>)]]
        /\ init_args' = [init_args EXCEPT ![o] =
                Some([ service_id |-> sid, target_tables |-> tt, api_blocks |-> blocks,
                       docker |-> dk, schema |-> schema ])]
        /\ UNCHANGED << schema, files, table_config, service_obj, sql_provider_obj,
                        tile_provider_obj >>

\* _init_resources from line 47 on: the second round trip to the database
\* (create_table_config, which reads the schema as it is now) and the three
\* generators (lines 49-55), built from the attributes of self.
_init_resources(o, fault) ==
    LET sid == Get(service_id[o])
        dk == Get(docker[o])
        eff == Get(api_blocks[o])
        req == table_config_request(target_tables[o])
        pos == BuildFailPos(req, fault)
        raised == InitRaised(pos, req)
        tc == create_table_config(req)
    IN  /\ pc[o] = "line47"
        /\ table_config' = [table_config EXCEPT ![o] =
                IF pos > 3 THEN Some(tc) ELSE None]
        /\ service_obj' = [service_obj EXCEPT ![o] =
                IF pos > 4 THEN Some(new_service_obj(sid, tc, eff)) ELSE None]
        /\ sql_provider_obj' = [sql_provider_obj EXCEPT ![o] =
                IF pos > 5 THEN Some(new_sql_provider_obj(o, sid, tc, dk)) ELSE None]
        /\ tile_provider_obj' = [tile_provider_obj EXCEPT ![o] =
                IF pos > 6
                THEN LET a == tile_provider_args(sid, tc, eff, dk)
                     IN  Some(new_tile_provider_obj(a[1], a[2]))
                ELSE None]
        /\ db_log' = [db_log EXCEPT ![o] =
                Append(@, [ call |-> "create_table_config", arg |-> req,
                            result |-> IF pos = 3 THEN None ELSE Some(tc) ])]
        /\ phase' = [phase EXCEPT ![o] = phase_after_init(pos)]
        /\ pc' = [pc EXCEPT ![o] = "idle"]
        /\ error' = [error EXCEPT ![o] = raised]
        /\ last' = [last EXCEPT ![o] = [NoCall EXCEPT !.op = "init", !.raised = raised]]
        /\ UNCHANGED << schema, files, service_id, target_tables, api_blocks, docker,
                        db_client, init_args >>

\* lines 64-66 with the first two calls exchanged.
GenerationOrder_swapped == << "provider", "service", "tiles" >>

\* lines 64-66: the order in which generate_yaml_files calls create_yaml.
GenerationOrder == << "service", "provider", "tiles" >>

\* The create_yaml call a generate_yaml_files call is at: 1 at line 64, 2 at
\* line 65, 3 at line 66.
GeneratePos(o) ==
    CASE pc[o] = "line65" -> 2
      [] pc[o] = "line66" -> 3
      [] OTHER -> 1

\* generate_yaml_files as it would be if it went on after a failed create_yaml.
pc_after_create_yaml_resumed(k, raises) ==
    CASE k = 1 -> "line65"
      [] k = 2 -> "line66"
      [] OTHER -> "idle"

\* Where generate_yaml_files is after its k-th create_yaml call: nothing
\* catches an exception, so a call that raises ends generate_yaml_files.
pc_after_create_yaml(k, raises) ==
    IF raises THEN "idle"
    ELSE CASE k = 1 -> "line65"
           [] k = 2 -> "line66"
           [] OTHER -> "idle"

\* create_yaml(export_dir) of the generator of that kind: the document it writes.
create_yaml(o, kind) ==
    CASE kind = "service" -> ServiceDoc(Get(service_obj[o]))
      [] kind = "provider" -> ProviderDoc(Get(sql_provider_obj[o]))
      [] kind = "tiles" -> TileDoc(Get(tile_provider_obj[o]))

IsDisposed(o) == ~IsNone(db_client[o]) /\ Get(db_client[o]).engine = "disposed"

\* generate_yaml_files as it would be if it rebuilt the table model first.
generate_yaml_files_refresh(o, export_dir, raises) ==
    LET k == GeneratePos(o)
        kind == GenerationOrder[k]
        exc == IF raises THEN "UnsupportedTypeError" ELSE NoError
        tables == get_schema_tables
    IN  /\ \/ pc[o] = "idle" /\ phase[o] \in {"Ready", "Generated"}
           \/ pc[o] \in {"line65", "line66"} /\ export_dir = last[o].export_dir
        /\ table_config' = [table_config EXCEPT ![o] =
                IF k = 1 THEN Some(create_table_config(tables)) ELSE @]
        /\ db_log' = [db_log EXCEPT ![o] =
                IF k = 1 /\ Len(@) < 4
                THEN Append(@, [ call |-> "create_table_config", arg |-> tables,
                                 result |-> Some(create_table_config(tables)) ])
                ELSE @]
        /\ files' = IF raises THEN files
                    ELSE [files EXCEPT ![<< export_dir, kind >>] = Some(create_yaml(o, kind))]
        /\ pc' = [pc EXCEPT ![o] = pc_after_create_yaml(k, raises)]
        /\ phase' = [phase EXCEPT ![o] = IF k = 3 /\ ~raises THEN "Generated" ELSE @]
        /\ error' = [error EXCEPT ![o] = IF raises \/ k = 1 THEN exc ELSE @]
        /\ last' = [last EXCEPT ![o] =
                IF k = 1
                THEN [ op |-> "generate",
                       disposed_before |->
                           ~IsNone(db_client[o]) /\ Get(db_client[o]).engine = "disposed",
                       generated_before |-> phase[o] = "Generated",
                       export_dir |-> export_dir, invoked |-> << kind >>,
                       wrote |-> IF raises THEN << >> ELSE << kind >>,
                       raised |-> exc ]
                ELSE [@ EXCEPT !.invoked = Append(@, kind),
                               !.wrote = IF raises THEN @ ELSE Append(@, kind),
                               !.raised = IF raises THEN exc ELSE @]]
        /\ UNCHANGED << schema, service_id, target_tables, api_blocks, docker,
                        service_obj, sql_provider_obj, tile_provider_obj,
                        db_client, init_args >>

\* generate_yaml_files as it would be if a completed call left the table model
\* held by the service generator in reverse order.
generate_yaml_files_reordering(o, export_dir, raises) ==
    LET k == GeneratePos(o)
        kind == GenerationOrder[k]
        exc == IF raises THEN "UnsupportedTypeError" ELSE NoError
        obj == Get(service_obj[o])
        n == Len(obj.table_config)
    IN  /\ \/ pc[o] = "idle" /\ phase[o] \in {"Ready", "Generated"}
           \/ pc[o] \in {"line65", "line66"} /\ export_dir = last[o].export_dir
        /\ files' = IF raises THEN files
                    ELSE [files EXCEPT ![<< export_dir, kind >>] = Some(create_yaml(o, kind))]
        /\ service_obj' = [service_obj EXCEPT ![o] =
                IF k = 3 /\ ~raises
                THEN Some([obj EXCEPT !.table_config =
                              [i \in 1..n |-> obj.table_config[n + 1 - i]]])
                ELSE @]
        /\ pc' = [pc EXCEPT ![o] = pc_after_create_yaml(k, raises)]
        /\ phase' = [phase EXCEPT ![o] = IF k = 3 /\ ~raises THEN "Generated" ELSE @]
        /\ error' = [error EXCEPT ![o] = IF raises \/ k = 1 THEN exc ELSE @]
        /\ last' = [last EXCEPT ![o] =
                IF k = 1
                THEN [ op |-> "generate",
                       disposed_before |->
                           ~IsNone(db_client[o]) /\ Get(db_client[o]).engine = "disposed",
                       generated_before |-> phase[o] = "Generated",
                       export_dir |-> export_dir, invoked |-> << kind >>,
                       wrote |-> IF raises THEN << >> ELSE << kind >>,
                       raised |-> exc ]
                ELSE [@ EXCEPT !.invoked = Append(@, kind),
                               !.wrote = IF raises THEN @ ELSE Append(@, kind),
                               !.raised = IF raises THEN exc ELSE @]]
        /\ UNCHANGED << schema, service_id, target_tables, api_blocks, docker,
                        table_config, sql_provider_obj, tile_provider_obj,
                        db_client, db_log, init_args >>

\* generate_yaml_files (lines 57-66), one create_yaml call per step: the call
\* at line 64 when generate_yaml_files is entered, then the calls at lines 65
\* and 66 of the call that is running.  Each create_yaml writes its document or
\* raises; nothing is held between two of them, so steps of other orchestrators
\* and changes of the database come in between.
generate_yaml_files(o, export_dir, raises) ==
    LET k == GeneratePos(o)
        kind == GenerationOrder[k]
        exc == IF raises THEN "UnsupportedTypeError" ELSE NoError
    IN  /\ \/ pc[o] = "idle" /\ phase[o] \in {"Ready", "Generated"}
           \/ pc[o] \in {"line65", "line66"} /\ export_dir = last[o].export_dir
        /\ files' = IF raises THEN files
                    ELSE [files EXCEPT ![<< export_dir, kind >>] = Some(create_yaml(o, kind))]
        /\ pc' = [pc EXCEPT ![o] = pc_after_create_yaml(k, raises)]
        /\ phase' = [phase EXCEPT ![o] = IF k = 3 /\ ~raises THEN "Generated" ELSE @]
        /\ error' = [error EXCEPT ![o] = IF raises \/ k = 1 THEN exc ELSE @]
        /\ last' = [last EXCEPT ![o] =
                IF k = 1
                THEN [ op |-> "generate", disposed_before |-> IsDisposed(o),
                       generated_before |-> phase[o] = "Generated",
                       export_dir |-> export_dir, invoked |-> << kind >>,
                       wrote |-> IF raises THEN << >> ELSE << kind >>,
                       raised |-> exc ]
                ELSE [@ EXCEPT !.invoked = Append(@, kind),
                               !.wrote = IF raises THEN @ ELSE Append(@, kind),
                               !.raised = IF raises THEN exc ELSE @]]
        /\ UNCHANGED << schema, attrs, db_client, db_log, init_args >>

\* dispose_engine as it would be if a second call were rejected.
dispose_engine_once(o) ==
    /\ phase[o] \in {"Ready", "Generated"} /\ pc[o] = "idle"
    /\ db_client' = [db_client EXCEPT ![o] = Some(client_dispose_engine(Get(@)))]
    /\ error' = [error EXCEPT ![o] =
            IF ~IsNone(db_client[o]) /\ Get(db_client[o]).engine = "disposed"
            THEN "DisposedError" ELSE NoError]
    /\ last' = [last EXCEPT ![o] =
            [ op |-> "dispose",
              disposed_before |->
                  ~IsNone(db_client[o]) /\ Get(db_client[o]).engine = "disposed",
              generated_before |-> FALSE,
              export_dir |-> "", invoked |-> << >>, wrote |-> << >>,
              raised |-> NoError ]]
    /\ UNCHANGED << schema, files, phase, pc, service_id, target_tables, api_blocks,
                    docker, table_config, service_obj, sql_provider_obj,
                    tile_provider_obj, db_log, init_args >>

\* dispose_engine as it would be if all orchestrators shared one engine.
dispose_engine_shared(o) ==
    /\ phase[o] \in {"Ready", "Generated"} /\ pc[o] = "idle"
    /\ db_client' = [p \in DOMAIN db_client |->
            IF IsNone(db_client[p]) THEN None
            ELSE Some(client_dispose_engine(Get(db_client[p])))]
    /\ error' = [error EXCEPT ![o] = NoError]
    /\ last' = [last EXCEPT ![o] =
            [ op |-> "dispose",
              disposed_before |->
                  ~IsNone(db_client[o]) /\ Get(db_client[o]).engine = "disposed",
              generated_before |-> FALSE,
              export_dir |-> "", invoked |-> << >>, wrote |-> << >>,
              raised |-> NoError ]]
    /\ UNCHANGED << schema, files, phase, pc, service_id, target_tables, api_blocks,
                    docker, table_config, service_obj, sql_provider_obj,
                    tile_provider_obj, db_log, init_args >>

\* dispose_engine (lines 68-69).  No operation runs concurrently with another
\* within one orchestrator (spec.md 5): dispose_engine is called when no other
\* call on it runs.
dispose_engine(o) ==
    /\ phase[o] \in {"Ready", "Generated"} /\ pc[o] = "idle"
    /\ db_client' = [db_client EXCEPT ![o] = Some(client_dispose_engine(Get(@)))]
    /\ error' = [error EXCEPT ![o] = NoError]
    /\ last' = [last EXCEPT ![o] =
            [NoCall EXCEPT !.op = "dispose", !.disposed_before = IsDisposed(o)]]
    /\ UNCHANGED << schema, files, phase, pc, attrs, db_log, init_args >>

(***************************************************************************)
(* The database changes under the orchestrator.                            *)
(***************************************************************************)
CreateTable(t) ==
    /\ t \notin Range(schema)
    /\ schema' = Append(schema, t)
    /\ UNCHANGED << files, phase, pc, attrs, db_client, error, last, db_log, init_args >>

DropTable(t) ==
    /\ t \in Range(schema)
    /\ schema' = SelectSeq(schema, LAMBDA x : x # t)
    /\ UNCHANGED << files, phase, pc, attrs, db_client, error, last, db_log, init_args >>

(***************************************************************************)
(* Specifications.                                                         *)
(***************************************************************************)
Init ==
    /\ schema \in SchemaStates
    /\ files = [p \in ExportDirs \X DocKinds |-> None]
    /\ phase = [o \in Orchestrators |-> "Uninitialized"]
    /\ pc = [o \in Orchestrators |-> "idle"]
    /\ service_id = [o \in Orchestrators |-> None]
    /\ target_tables = [o \in Orchestrators |-> None]
    /\ api_blocks = [o \in Orchestrators |-> None]
    /\ docker = [o \in Orchestrators |-> None]
    /\ db_client = [o \in Orchestrators |-> None]
    /\ table_config = [o \in Orchestrators |-> None]
    /\ service_obj = [o \in Orchestrators |-> None]
    /\ sql_provider_obj = [o \in Orchestrators |-> None]
    /\ tile_provider_obj = [o \in Orchestrators |-> None]
    /\ error = [o \in Orchestrators |-> NoError]
    /\ last = [o \in Orchestrators |-> NoCall]
    /\ db_log = [o \in Orchestrators |-> << >>]
    /\ init_args = [o \in Orchestrators |-> None]

Construct(o) ==
    \E sid \in ServiceIds, sn \in SchemaNames, tt \in TargetTableInputs,
       blocks \in ApiBlockInputs, dk \in BOOLEAN, fault \in InitFaults :
        __init__(o, sid, sn, tt, blocks, dk, fault)

InitResources(o) == \E fault \in ResourceFaults : _init_resources(o, fault)

Generate(o) ==
    \E dir \in ExportDirs, raises \in BOOLEAN : generate_yaml_files(o, dir, raises)

Dispose(o) == dispose_engine(o)

SchemaChange == \E t \in TableNames : CreateTable(t) \/ DropTable(t)

Next ==
    \/ \E o \in Single : Construct(o)
    \/ \E o \in Single : InitResources(o)
    \/ \E o \in Single : Generate(o)
    \/ \E o \in Single : Dispose(o)
    \/ SchemaChange

Spec == Init /\ [][Next]_vars

\* The caller that holds an orchestrator eventually calls dispose_engine on it.
FairSpec == Spec /\ \A o \in Single : WF_vars(dispose_engine(o))

\* Two orchestrators side by side, over the same database (a schema of two
\* tables) and the same export directory, each constructed with
\* target_tables=None from a small set of arguments; the schema may lose its
\* table stations at any moment, also between two calls of one operation.
PairInit == Init /\ schema = << "parks", "stations" >>

PairApiBlockInputs == { None, Some(<<"TILES">>) }

PairConstruct(o) ==
    \E sid \in ServiceIds, sn \in SchemaNames, blocks \in PairApiBlockInputs,
       dk \in BOOLEAN :
        __init__(o, sid, sn, None, blocks, dk, "none")

PairInitResources(o) == _init_resources(o, "none")

PairGenerate(o) == \E dir \in ExportDirs : generate_yaml_files(o, dir, FALSE)

PairNext ==
    \/ \E o \in Orchestrators : PairConstruct(o)
    \/ \E o \in Orchestrators : PairInitResources(o)
    \/ \E o \in Orchestrators : PairGenerate(o)
    \/ \E o \in Orchestrators : Dispose(o)
    \/ DropTable("stations")

PairSpec == PairInit /\ [][PairNext]_vars

(***************************************************************************)
(* Properties.                                                             *)
(***************************************************************************)
Constructed(o) == phase[o] \in {"Ready", "Generated"}
EngineOpen(o) == ~IsNone(db_client[o]) /\ Get(db_client[o]).engine = "open"
\* What an operation can change apart from its own outcome (error, last).
program_state == << schema, files, phase, pc, attrs, db_client, db_log, init_args >>

\* C1: after dispose_engine, every generate_yaml_files call fails with
\* DisposedError, invokes none of the three generators and writes no document.
C1_GenerateAfterDisposeRejected ==
    \A o \in Orchestrators :
        (last[o].op = "generate" /\ last[o].disposed_before)
            => /\ error[o] = "DisposedError"
               /\ last[o].invoked = << >>
               /\ last[o].wrote = << >>

\* C2: dispose_engine can be called in every state of a constructed
\* orchestrator (Ready, Generated, after a failed generation, already
\* disposed), it raises nothing and leaves the engine disposed, it changes
\* nothing but the engine, and a call on a disposed orchestrator changes
\* nothing at all.
C2_DisposeIdempotentAlwaysAvailable ==
    /\ [](\A o \in Orchestrators :
            (Constructed(o) /\ pc[o] = "idle") => ENABLED dispose_engine(o))
    /\ [][\A o \in Orchestrators :
            (last'[o] # last[o] /\ last'[o].op = "dispose")
                => /\ error'[o] = NoError
                   /\ IsDisposed(o)'
                   /\ UNCHANGED << schema, files, phase, pc, attrs, db_log, init_args >>
                   /\ IsDisposed(o) => UNCHANGED program_state]_vars

\* A second dispose_engine call has been made, on an orchestrator whose last
\* generation had failed or succeeded.
C2_Witness ==
    \E o \in Orchestrators :
        /\ last[o].op = "dispose" /\ last[o].disposed_before
        /\ phase[o] = "Generated"

\* C3: the engine an orchestrator opened is eventually released on every run,
\* also when __init__ raises after DatabaseClient was created or when
\* generate_yaml_files raises.
C3_EngineEventuallyReleased ==
    \A o \in Orchestrators : EngineOpen(o) ~> IsDisposed(o)

\* C4: an api_blocks value with a flag outside the six recognised ones makes
\* __init__ raise; no unrecognised flag reaches the service generator.
C4_ClosedFlagSet ==
    \A o \in Orchestrators :
        /\ ~IsNone(service_obj[o])
               => Range(Get(service_obj[o]).api_blocks) \subseteq CapabilityFlags
        /\ (/\ ~IsNone(init_args[o])
            /\ ~IsNone(Get(init_args[o]).api_blocks)
            /\ ~(Range(Get(Get(init_args[o]).api_blocks)) \subseteq CapabilityFlags))
               => phase[o] = "Failed" /\ error[o] = "UnsupportedTypeError"

\* C5: constructed with target_tables=None, the orchestrator enumerates the
\* schema once, builds the table model for exactly the list that call
\* returned (the schema as it was then), the three generators hold that
\* model, and it stays so in every later state, whatever the schema becomes.
C5_DefaultCoversEnumeratedTables ==
    \A o \in Orchestrators :
        (Constructed(o) /\ IsNone(Get(init_args[o]).target_tables))
            => /\ Len(db_log[o]) = 2
               /\ db_log[o][1].call = "get_schema_tables"
               /\ db_log[o][2].call = "create_table_config"
               /\ LET listed == Get(db_log[o][1].result)
                      tc == Get(table_config[o])
                  IN  /\ listed = Get(init_args[o]).schema
                      /\ Get(target_tables[o]) = listed
                      /\ db_log[o][2].arg = listed
                      /\ db_log[o][2].result = Some(tc)
                      /\ Get(service_obj[o]).table_config = tc
                      /\ Get(sql_provider_obj[o]).table_config = tc
                      /\ Get(tile_provider_obj[o]).table_config = tc

\* An orchestrator built with target_tables=None over a schema of two tables
\* has generated its documents after the schema changed.
C5_Witness ==
    \E o \in Orchestrators :
        /\ Constructed(o)
        /\ IsNone(Get(init_args[o]).target_tables)
        /\ Len(Get(init_args[o]).schema) = 2
        /\ schema # Get(init_args[o]).schema
        /\ last[o].op = "generate" /\ last[o].raised = NoError

SoleOrchestrator(o) == \A p \in Orchestrators \ {o} : phase[p] = "Uninitialized"

\* C6: when a call of __init__ raises, the caller gets that very exception,
\* the orchestrator is Failed, no metadata call was repeated, no
\* generate_yaml_files call can run on it and no document has been written.
C6_FailedConstruction ==
    \A o \in Orchestrators :
        /\ (last[o].op = "init" /\ last[o].raised # NoError)
               => phase[o] = "Failed" /\ error[o] = last[o].raised
        /\ phase[o] = "Failed"
               => /\ last[o].op = "init" /\ error[o] # NoError
                  /\ \A i, j \in 1..Len(db_log[o]) :
                         i # j => db_log[o][i].call # db_log[o][j].call
                  /\ pc[o] = "idle"
                  /\ \A d \in ExportDirs, f \in BOOLEAN :
                         ~ENABLED generate_yaml_files(o, d, f)
                  /\ SoleOrchestrator(o) => \A p \in DOMAIN files : IsNone(files[p])

\* __init__ has raised the NotFoundError of create_table_config.
C6_Witness ==
    \E o \in Orchestrators :
        /\ phase[o] = "Failed" /\ error[o] = "NotFoundError"
        /\ Len(db_log[o]) = 1
        /\ db_log[o][1].call = "create_table_config" /\ IsNone(db_log[o][1].result)

FixedOrder == << "service", "provider", "tiles" >>

\* C7: when the k-th create_yaml of a generate_yaml_files call raises, the
\* call ends there: generators 1..k-1 were invoked and wrote, generator k was
\* invoked and wrote nothing, generators k+1..3 were not invoked, the caller
\* gets the exception, and the documents of generators 1..k-1 are on disk; the
\* step that raises changes no document and not the orchestrator's phase, and
\* every step of a call changes at most the document of the generator it
\* invokes.
C7_PartialWrite ==
    /\ [](\A o \in Orchestrators :
            (last[o].op = "generate" /\ last[o].raised # NoError)
                => LET k == Len(last[o].invoked)
                   IN  /\ k >= 1
                       /\ pc[o] = "idle"
                       /\ last[o].invoked = SubSeq(FixedOrder, 1, k)
                       /\ last[o].wrote = SubSeq(FixedOrder, 1, k - 1)
                       /\ error[o] = last[o].raised
                       /\ SoleOrchestrator(o)
                              => \A i \in 1..(k - 1) :
                                     files[<< last[o].export_dir, FixedOrder[i] >>]
                                         = Some(create_yaml(o, FixedOrder[i])))
    /\ [][\A o \in Orchestrators :
            (last'[o] # last[o] /\ last'[o].op = "generate")
                => /\ last'[o].raised # NoError
                       => phase'[o] = phase[o] /\ files' = files
                   /\ \A p \in DOMAIN files :
                          p # << last'[o].export_dir,
                                 last'[o].invoked[Len(last'[o].invoked)] >>
                              => files'[p] = files[p]]_vars

\* The third generator of a call has raised after the first two wrote.
C7_Witness ==
    \E o \in Orchestrators :
        /\ last[o].op = "generate" /\ last[o].raised # NoError
        /\ last[o].wrote = << "service", "provider" >>
        /\ phase[o] = "Ready" /\ pc[o] = "idle"
        /\ ~IsNone(files[<< "out", "provider" >>])
        /\ IsNone(files[<< "out", "tiles" >>])

\* C8: every generate_yaml_files call invokes the generators in the order
\* service, data-provider, tile-provider and writes each document at most
\* once: what it invoked and what it wrote are prefixes of that order.
C8_FixedGenerationOrder ==
    \A o \in Orchestrators :
        last[o].op = "generate"
            => /\ \E k \in 0..3 : last[o].invoked = SubSeq(FixedOrder, 1, k)
               /\ \E k \in 0..3 : last[o].wrote = SubSeq(FixedOrder, 1, k)
               /\ NoDuplicates(last[o].wrote)

\* A call has written all three documents.
C8_Witness ==
    \E o \in Orchestrators :
        last[o].op = "generate" /\ last[o].wrote = FixedOrder

\* C9: the three generators are bound to the service_id given to __init__,
\* and the documents they write carry that identifier.
C9_SingleServiceId ==
    \A o \in Orchestrators :
        Constructed(o)
            => LET sid == Get(init_args[o]).service_id
               IN  /\ Get(service_id[o]) = sid
                   /\ Get(service_obj[o]).service_id = sid
                   /\ Get(sql_provider_obj[o]).service_id = sid
                   /\ Get(tile_provider_obj[o]).service_id = sid
                   /\ \A k \in DocKinds : create_yaml(o, k).id = sid
                   /\ SoleOrchestrator(o)
                          => \A p \in DOMAIN files :
                                 ~IsNone(files[p]) => Get(files[p]).id = sid

\* The three documents of an orchestrator are on disk.
C9_Witness ==
    \E o \in Orchestrators :
        /\ phase[o] = "Generated"
        /\ \A k \in DocKinds : ~IsNone(files[<< "out", k >>])

\* C10: a constructed orchestrator has built its table model with one
\* create_table_config call, the three generators hold that model, and no
\* later step (generate_yaml_files, dispose_engine, a change of the schema)
\* makes a metadata call or changes the model or the generators.
C10_TableModelBuiltOnce ==
    /\ [](\A o \in Orchestrators :
            Constructed(o)
                => LET built == SelectSeq(db_log[o],
                                    LAMBDA c : c.call = "create_table_config")
                   IN  /\ Len(built) = 1
                       /\ built[1].result = table_config[o]
                       /\ Get(service_obj[o]).table_config = Get(table_config[o])
                       /\ Get(sql_provider_obj[o]).table_config = Get(table_config[o])
                       /\ Get(tile_provider_obj[o]).table_config = Get(table_config[o]))
    /\ [][\A o \in Orchestrators :
            Constructed(o)
                => /\ table_config'[o] = table_config[o]
                   /\ db_log'[o] = db_log[o]
                   /\ service_obj'[o] = service_obj[o]
                   /\ sql_provider_obj'[o] = sql_provider_obj[o]
                   /\ tile_provider_obj'[o] = tile_provider_obj[o]]_vars

\* Documents were generated and the engine disposed after the schema lost a
\* table the model holds.
C10_Witness ==
    \E o \in Orchestrators :
        /\ phase[o] = "Generated" /\ IsDisposed(o)
        /\ Len(Get(table_config[o])) = 2
        /\ Len(schema) < 2

\* C11: generate_yaml_files can be called again on an orchestrator that is
\* Generated and not disposed; a repeated call leaves it Generated, and each
\* create_yaml of it that returns rewrites a document already on disk with
\* equal content (same feature types and tilesets in the same order); a
\* completed call leaves all three documents on disk.
C11_RepeatedGenerationSameDocuments ==
    /\ [](\A o \in Orchestrators :
            (Constructed(o) /\ ~IsDisposed(o))
                => \A d \in ExportDirs :
                       (pc[o] = "idle" \/ d = last[o].export_dir)
                           => ENABLED generate_yaml_files(o, d, FALSE))
    /\ [](\A o \in Orchestrators :
            (/\ last[o].op = "generate" /\ last[o].raised = NoError /\ pc[o] = "idle"
             /\ SoleOrchestrator(o))
                => \A k \in DocKinds :
                       files[<< last[o].export_dir, k >>] = Some(create_yaml(o, k)))
    /\ [][\A o \in Orchestrators, d \in ExportDirs :
            (/\ generate_yaml_files(o, d, FALSE)
             /\ phase[o] = "Generated" /\ ~IsDisposed(o))
                => /\ phase'[o] = "Generated"
                   /\ error'[o] = NoError
                   /\ SoleOrchestrator(o)
                          => \A k \in DocKinds :
                                 ~IsNone(files[<< d, k >>])
                                     => files'[<< d, k >>] = files[<< d, k >>]]_vars

\* A second call has completed on an orchestrator over two tables.
C11_Witness ==
    \E o \in Orchestrators :
        /\ last[o].op = "generate" /\ last[o].raised = NoError
        /\ pc[o] = "idle" /\ last[o].wrote = FixedOrder
        /\ last[o].generated_before /\ ~last[o].disposed_before
        /\ Len(Get(table_config[o])) = 2

\* C12: two orchestrators with the same service id and the same table model
\* hold equal tile-provider generators and produce equal tile-provider
\* documents, whatever their api_blocks are.
C12_TileDocumentIgnoresFlags ==
    \A o, p \in Orchestrators :
        (/\ Constructed(o) /\ Constructed(p)
         /\ service_id[o] = service_id[p]
         /\ table_config[o] = table_config[p])
            => /\ tile_provider_obj[o] = tile_provider_obj[p]
               /\ create_yaml(o, "tiles") = create_yaml(p, "tiles")

\* Two orchestrators over the same service id and a model with a geometry
\* table, one with the default flags and one with TILES only, both generated.
C12_Witness ==
    /\ phase["o1"] = "Generated" /\ phase["o2"] = "Generated"
    /\ service_id["o1"] = service_id["o2"]
    /\ table_config["o1"] = table_config["o2"]
    /\ Len(create_yaml("o1", "tiles").tilesets) = 1
    /\ Get(api_blocks["o1"]) = << "TILES" >>
    /\ Len(Get(api_blocks["o2"])) = 6

SixFlags == << "QUERYABLES", "CRS", "FILTER", "TILES", "STYLES", "PROJECTIONS" >>

\* C13: without api_blocks the service generator is constructed with exactly
\* the six flags; with a non-empty api_blocks it gets exactly that list.
C13_ApiBlocksDefault ==
    \A o \in Orchestrators :
        ~IsNone(service_obj[o])
            => LET given == Get(init_args[o]).api_blocks
                   got == Get(service_obj[o]).api_blocks
               IN  /\ IsNone(given) => got = SixFlags
                   /\ (~IsNone(given) /\ Get(given) # << >>) => got = Get(given)
                   /\ api_blocks[o] = Some(got)

\* An orchestrator constructed without api_blocks.
C13_Witness ==
    \E o \in Orchestrators :
        /\ Constructed(o) /\ IsNone(Get(init_args[o]).api_blocks)
        /\ Get(service_obj[o]).api_blocks = SixFlags

\* What belongs to one orchestrator: its connection, its attributes, its table
\* model, its generators and the metadata calls it made.
Own(o) ==
    << phase[o], pc[o], db_client[o], service_id[o], target_tables[o], api_blocks[o],
       docker[o], table_config[o], service_obj[o], sql_provider_obj[o],
       tile_provider_obj[o], db_log[o], init_args[o] >>

\* C14: each constructed orchestrator holds its own client, its data-provider
\* generator uses the engine of that client, and its model comes from an
\* enumeration of the schema made during its own construction; a construct,
\* generate_yaml_files or dispose_engine step of one orchestrator leaves
\* everything the other one owns unchanged, its open engine included.
C14_InstancesShareNoState ==
    /\ [](\A o \in Orchestrators :
            Constructed(o)
                => /\ ~IsNone(db_client[o])
                   /\ Get(sql_provider_obj[o]).engine = o
                   /\ db_log[o][1].call = "get_schema_tables"
                   /\ db_log[o][1].result = Some(Get(init_args[o]).schema)
                   /\ Get(table_config[o])
                          = create_table_config(Get(init_args[o]).schema))
    /\ [][\A o, p \in Orchestrators :
            (o # p /\ (\/ PairConstruct(o) \/ PairInitResources(o)
                        \/ PairGenerate(o) \/ Dispose(o)))
                => /\ Own(p)' = Own(p)
                   /\ EngineOpen(p) => EngineOpen(p)']_vars

\* One orchestrator was disposed while the other, constructed from a later
\* state of the schema, has generated its documents and still has its engine.
C14_Witness ==
    /\ IsDisposed("o1") /\ last["o1"].op = "dispose"
    /\ phase["o2"] = "Generated" /\ EngineOpen("o2")
    /\ Get(init_args["o1"]).schema # Get(init_args["o2"]).schema
    /\ table_config["o1"] # table_config["o2"]

\* C15: in the documents of a constructed orchestrator, every table of the
\* model with a geometry column has one feature type in the service document
\* and one tileset in the tile-provider document with the same identifier;
\* a table without a geometry column has a feature type and no tileset; the
\* tile-provider document has no other tileset.
C15_CrossDocumentIdentity ==
    \A o \in Orchestrators :
        Constructed(o)
            => LET tc == Get(table_config[o])
                   sd == create_yaml(o, "service")
                   td == create_yaml(o, "tiles")
               IN  /\ Len(sd.feature_types) = Len(tc)
                   /\ \A i \in 1..Len(tc) :
                          /\ sd.feature_types[i] = FeatureTypeId(tc[i].name)
                          /\ HasGeometry(tc[i])
                                 => \E j \in 1..Len(td.tilesets) :
                                        td.tilesets[j] = sd.feature_types[i]
                          /\ ~HasGeometry(tc[i])
                                 => \A j \in 1..Len(td.tilesets) :
                                        td.tilesets[j] # FeatureTypeId(tc[i].name)
                   /\ \A j \in 1..Len(td.tilesets) :
                          \E i \in 1..Len(tc) :
                              HasGeometry(tc[i]) /\ td.tilesets[j] = sd.feature_types[i]
                   /\ NoDuplicates(td.tilesets)

\* Documents were generated for an explicit list that holds the table without
\* geometry only, over a schema that holds the geometry table too.
C15_Witness ==
    \E o \in Orchestrators :
        /\ phase[o] = "Generated"
        /\ Get(target_tables[o]) = << "stations" >>
        /\ "parks" \in Range(Get(init_args[o]).schema)
        /\ create_yaml(o, "tiles").tilesets = << >>
        /\ create_yaml(o, "service").feature_types = << "stations" >>

\* C16: whatever the arguments of __init__ and whatever the tables, the
\* data-provider generator is constructed with the axis order LON_LAT, holds
\* the whole table model, and its document states that one axis order for
\* all its types.
C16_GlobalAxisOrder ==
    \A o \in Orchestrators :
        ~IsNone(sql_provider_obj[o])
            => LET obj == Get(sql_provider_obj[o])
                   doc == ProviderDoc(obj)
               IN  /\ obj.force_axis_order = "LON_LAT"
                   /\ obj.table_config = Get(table_config[o])
                   /\ doc.axis_order = "LON_LAT"
                   /\ Len(doc.types) = Len(Get(table_config[o]))
                   /\ \A i \in 1..Len(doc.types) : "axis_order" \notin DOMAIN doc.types[i]

\* A data-provider generator built with docker=True over a model of two
\* tables, one of them with a geometry column.
C16_Witness ==
    \E o \in Orchestrators :
        /\ Constructed(o)
        /\ Get(sql_provider_obj[o]).docker
        /\ Len(Get(sql_provider_obj[o]).table_config) = 2
        /\ Get(init_args[o]).docker

\* The arguments of __init__ other than docker, with the schema it ran against.
ArgsButDocker(o) ==
    LET a == Get(init_args[o])
    IN  << a.service_id, a.target_tables, a.api_blocks, a.schema >>

\* C17: two constructed orchestrators whose constructions differ in the docker
\* flag only have equal target tables, equal table models, equal service
\* generators and equal tile-provider generators; their data-provider
\* generators differ in the flag (and the engine) only, and of the three
\* generators only the data-provider one holds the flag.
C17_DockerLeavesModelAlone ==
    /\ \A o \in Orchestrators :
           Constructed(o)
               => /\ Get(sql_provider_obj[o]).docker = Get(init_args[o]).docker
                  /\ "docker" \notin DOMAIN Get(service_obj[o])
                  /\ "docker" \notin DOMAIN Get(tile_provider_obj[o])
    /\ \A o, p \in Orchestrators :
           (Constructed(o) /\ Constructed(p) /\ ArgsButDocker(o) = ArgsButDocker(p))
               => /\ target_tables[o] = target_tables[p]
                  /\ table_config[o] = table_config[p]
                  /\ service_obj[o] = service_obj[p]
                  /\ tile_provider_obj[o] = tile_provider_obj[p]
                  /\ [Get(sql_provider_obj[o]) EXCEPT !.docker = FALSE, !.engine = ""]
                         = [Get(sql_provider_obj[p]) EXCEPT !.docker = FALSE, !.engine = ""]

\* Two orchestrators constructed from equal arguments over the same schema of
\* two tables, one with docker=True and one with docker=False.
C17_Witness ==
    /\ Constructed("o1") /\ Constructed("o2")
    /\ ArgsButDocker("o1") = ArgsButDocker("o2")
    /\ Get(init_args["o1"]).docker /\ ~Get(init_args["o2"]).docker
    /\ Len(Get(table_config["o1"])) = 2

\* C18: when __init__ is given a list of tables, the empty list included, it
\* never calls get_schema_tables, it calls create_table_config with that very
\* list, target_tables stays that list, and the model has the tables of the
\* list in the order of the list; a constructed orchestrator never has
\* target_tables None.
C18_ExplicitTargetTables ==
    \A o \in Orchestrators :
        /\ Constructed(o) => ~IsNone(target_tables[o])
        /\ (~IsNone(init_args[o]) /\ ~IsNone(Get(init_args[o]).target_tables))
               => LET given == Get(Get(init_args[o]).target_tables)
                  IN  /\ \A i \in 1..Len(db_log[o]) :
                             db_log[o][i].call # "get_schema_tables"
                      /\ \A i \in 1..Len(db_log[o]) : db_log[o][i].arg = given
                      /\ target_tables[o] = Some(given)
                      /\ Constructed(o)
                             => /\ Len(db_log[o]) = 1
                                /\ db_log[o][1].result = table_config[o]
                                /\ LET tc == Get(table_config[o])
                                   IN  /\ Range(given) = {tc[i].name : i \in 1..Len(tc)}
                                       /\ NoDuplicates(given)
                                              => given = [i \in 1..Len(tc) |-> tc[i].name]

\* An orchestrator constructed with target_tables=[] over a schema that holds
\* tables.
C18_Witness ==
    \E o \in Orchestrators :
        /\ Constructed(o)
        /\ Get(init_args[o]).target_tables = Some(<< >>)
        /\ Get(init_args[o]).schema # << >>
        /\ Get(table_config[o]) = << >>

\* C19: constructed with api_blocks=[], the orchestrator and its service
\* generator hold the six default flags, as they do when api_blocks is absent;
\* no service generator holds an empty list of flags.
C19_EmptyApiBlocksIsDefault ==
    \A o \in Orchestrators :
        /\ (~IsNone(init_args[o]) /\ Get(init_args[o]).api_blocks = Some(<< >>))
               => api_blocks[o] = Some(SixFlags)
        /\ ~IsNone(service_obj[o])
               => /\ Get(service_obj[o]).api_blocks # << >>
                  /\ Get(service_obj[o]).api_blocks = Get(api_blocks[o])
                  /\ Get(init_args[o]).api_blocks \in {None, Some(<< >>)}
                         => Get(service_obj[o]).api_blocks = SixFlags

\* Documents were generated by an orchestrator constructed with api_blocks=[].
C19_Witness ==
    \E o \in Orchestrators :
        /\ phase[o] = "Generated"
        /\ Get(init_args[o]).api_blocks = Some(<< >>)
        /\ Len(Get(service_obj[o]).api_blocks) = 6
====
